---- MODULE Spec2Model ----
(***************************************************************************)
(* A model of the host-side MCP2210 driver (mcp2210/device.py): one device *)
(* session object, its sendCommand round trip over the HID transport, the  *)
(* chunked SPI transfer with its busy-retry and drain loops, the cached    *)
(* remote properties, the GPIO bit vectors and the EEPROM accessor.        *)
(*                                                                         *)
(* The driver is sequential.  A public call runs until it blocks in        *)
(* hid.write / hid.read; the device's answer is the only nondeterminism.   *)
(* An action is therefore either the start of a public call (up to its     *)
(* first sendCommand), one of the two transport steps of sendCommand, or   *)
(* the continuation of a call after sendCommand has returned.              *)
(***************************************************************************)
EXTENDS Integers, Sequences, FiniteSets, TLC

\* ------------------------------------------------------------------ bounds
\* Busy (0xF8) answers the device gives within one transfer call.
MaxBusy == 2
\* Empty-payload (drain) requests issued within one transfer call.
MaxDrain == 2
\* Public calls made on one session after its construction.
MaxCalls == 2

\* ------------------------------------------------------ program constants
\* for i in range(0, len(data), 60) / data[i:i + 60]
ChunkSize == 60
\* self.hid.read(64)
ReportSize == 64
\* key.indices(255)
EepromSize == 255
\* status not in (0, 0xf8)
Busy == 248
Success == 0

\* Status codes other than Success and Busy that the device may answer.
ErrorCodes == {247, 251}
StatusCodes == {Success, Busy} \cup ErrorCodes

\* Status of a logged request whose response has not been read yet, and of
\* one whose response frame was too short to hold a status.
Pending == -1
Malformed == -2

\* ------------------------------------------------------------ python data
Min(a, b) == IF a < b THEN a ELSE b
Max(a, b) == IF a > b THEN a ELSE b

\* data[i:j] for 0 <= i, 0 <= j (python clamps both ends to len(data)).
Slice(data, i, j) == SubSeq(data, Min(i, Len(data)) + 1, Min(j, Len(data)))

\* An attribute that has not been set (getattr raises AttributeError), or a
\* GPIOSettings._value that is None.
Absent == <<>>
Cached(v) == <<v>>
IsCached(c) == Len(c) > 0
ValueOf(c) == c[1]

\* --------------------------------------------------------------- commands
\* The command objects of mcp2210.commands as the driver constructs them:
\* the opcode's name and the constructor's arguments.
Command(code, arg) == [code |-> code, arg |-> arg]

PropNames == {"manufacturer_name", "product_name", "boot_chip_settings",
              "chip_settings", "boot_transfer_settings", "transfer_settings",
              "boot_usb_settings"}
NameProps == {"manufacturer_name", "product_name"}

\* remote_property(name, get_command, set_command, field_name)
GetCommandOf(p) ==
    CASE p = "manufacturer_name"      -> "GetUSBManufacturer"
      [] p = "product_name"           -> "GetUSBProduct"
      [] p = "boot_chip_settings"     -> "GetBootChipSettings"
      [] p = "chip_settings"          -> "GetChipSettings"
      [] p = "boot_transfer_settings" -> "GetBootSPISettings"
      [] p = "transfer_settings"      -> "GetSPISettings"
      [] p = "boot_usb_settings"      -> "GetBootUSBSettings"

SetCommandOf(p) ==
    CASE p = "manufacturer_name"      -> "SetUSBManufacturer"
      [] p = "product_name"           -> "SetUSBProduct"
      [] p = "boot_chip_settings"     -> "SetBootChipSettings"
      [] p = "chip_settings"          -> "SetChipSettings"
      [] p = "boot_transfer_settings" -> "SetBootSPISettings"
      [] p = "transfer_settings"      -> "SetSPISettings"
      [] p = "boot_usb_settings"      -> "SetBootUSBSettings"

GetCodes == {GetCommandOf(p) : p \in PropNames}
SetCodes == {SetCommandOf(p) : p \in PropNames}
PropOfCode(code) ==
    CHOOSE p \in PropNames : code \in {GetCommandOf(p), SetCommandOf(p)}

GpioNames == {"gpio_direction", "gpio"}
\* GPIOSettings(self, get_command, set_command)
GpioGetCommandOf(g) ==
    IF g = "gpio_direction" THEN "GetGPIODirection" ELSE "GetGPIOValue"
GpioSetCommandOf(g) ==
    IF g = "gpio_direction" THEN "SetGPIODirection" ELSE "SetGPIOValue"
GpioGetCodes == {GpioGetCommandOf(g) : g \in GpioNames}
GpioSetCodes == {GpioSetCommandOf(g) : g \in GpioNames}
GpioOfCode(code) ==
    CHOOSE g \in GpioNames : code \in {GpioGetCommandOf(g), GpioSetCommandOf(g)}

\* ------------------------------------------------------------------ state
VARIABLES
    pc,         \* where the running public call stands ("new", "idle", "dead",
                \* or the call site that waits for sendCommand)
    io,         \* where sendCommand stands: "none", "write", "read", "done"
    req,        \* the request sendCommand is carrying: [cmd, check]
    resp,       \* the response sendCommand returned
    frame,      \* the local variables of the running public call
    call,       \* the running (or last finished) public call: [op, args]
    outcome,    \* "none", "running", "returned", "CommandException", "ValueError"
    ret,        \* the value returned, or the arguments of the exception
    log,        \* the requests written during `call`, each with its status
    prev,       \* the public call before `call`: [op, args, outcome]
    ncalls,     \* public calls started on the session
    cache,      \* the remote properties' cached attributes
    gpioCache,  \* GPIOSettings._value of gpio_direction and gpio
    devProp,    \* the device: its strings and settings
    devGpio,    \* the device: its GPIO direction and value words
    devEeprom   \* the device: its EEPROM

vars == <<pc, io, req, resp, frame, call, outcome, ret, log, prev, ncalls,
          cache, gpioCache, devProp, devGpio, devEeprom>>

session == <<cache, gpioCache>>
device == <<devProp, devGpio, devEeprom>>

NoReq == [cmd |-> Command("none", <<>>), check |-> TRUE]
NoResp == [status |-> Success, field |-> <<>>]
NoFrame == [op |-> "none"]
NoCall == [op |-> "none", args |-> <<>>]

\* ------------------------------------------------------------- the device
\* The chip at the other end of the transport.  It reads one report and
\* writes one report per exchange; what it answers is the environment's
\* choice, within what the chip does: a command answered with Success takes
\* effect, any other answer leaves the chip as it was.

\* Lengths of a response frame the transport may hand back: an empty read, a
\* truncated report, a whole report.
FrameSizes == {0, ReportSize - 1, ReportSize}

\* n received bytes; the bytes of the k-th response of a call carry k.
RxData(n, k) == [j \in 1..n |-> k % 256]

NumStatus(l, s) == Cardinality({k \in 1..Len(l) : l[k].status = s})

Answer(size, status, field) ==
    [size |-> size, status |-> status, field |-> field]

\* The value a Success response to command c carries.
DevField(c) ==
    CASE c.code \in GetCodes     -> devProp[PropOfCode(c.code)]
      [] c.code \in GpioGetCodes -> devGpio[GpioOfCode(c.code)]
      [] c.code = "ReadEEPROM"   -> devEeprom[c.arg[1]]
      [] OTHER                   -> <<>>

\* Received bytes the Success responses logged in l have delivered.
RECURSIVE Delivered(_)
Delivered(l) ==
    IF l = <<>> THEN 0
    ELSE Delivered(SubSeq(l, 1, Len(l) - 1))
         + (IF l[Len(l)].cmd.code = "SPITransfer" /\ l[Len(l)].status = Success
            THEN Len(l[Len(l)].field) ELSE 0)

\* Bytes of received SPI data one Success response to command c may carry, of
\* 0..60: none, as many as the request carries, as many as the declared
\* transfer size still lacks, and a full report's worth.
RxLens(c) ==
    {0, Len(c.arg), ChunkSize,
     Max(0, Min(ChunkSize,
                devProp["transfer_settings"].spi_tx_size - Delivered(log)))}

\* What the device may answer to command c: <<frame size, status, number of
\* received bytes>>.
DevChoices(c) ==
    IF c.code = "SPITransfer"
    THEN {<<ReportSize, Success, n>> : n \in RxLens(c)}
         \cup {<<ReportSize, Busy, 1>> :
                   x \in {y \in {1} : NumStatus(log, Busy) < MaxBusy}}
         \cup {<<ReportSize, e, 0>> : e \in ErrorCodes}
         \cup {<<n, Malformed, 0>> : n \in FrameSizes \ {ReportSize}}
    ELSE {<<ReportSize, e, 0>> : e \in StatusCodes}
         \cup {<<n, Malformed, 0>> : n \in FrameSizes \ {ReportSize}}

\* The response frame of choice ch.  A Busy response to SPITransfer carries
\* a stale byte in its data field.
DevAnswer(c, ch) ==
    Answer(ch[1], ch[2],
           CASE ch[1] # ReportSize -> <<>>
             [] ch[1] = ReportSize /\ c.code = "SPITransfer" /\ ch[2] = Success
                  -> RxData(ch[3], Len(log))
             [] ch[1] = ReportSize /\ c.code = "SPITransfer" /\ ch[2] = Busy
                  -> RxData(ch[3], 255)
             [] ch[1] = ReportSize /\ c.code # "SPITransfer" /\ ch[2] = Success
                  -> DevField(c)
             [] OTHER -> <<>>)

\* The chip after it answered command c with `ans`.
DevApply(c, ans) ==
    IF ans.size = ReportSize /\ ans.status = Success
    THEN /\ devProp' = IF c.code \in SetCodes
                       THEN [devProp EXCEPT ![PropOfCode(c.code)] = c.arg[1]]
                       ELSE devProp
         /\ devGpio' = IF c.code \in GpioSetCodes
                       THEN [devGpio EXCEPT ![GpioOfCode(c.code)] = c.arg[1]]
                       ELSE devGpio
         /\ devEeprom' = IF c.code = "WriteEEPROM"
                         THEN [devEeprom EXCEPT ![c.arg[1]] = c.arg[2]]
                         ELSE devEeprom
    ELSE UNCHANGED device

\* ------------------------------------------------------- call bookkeeping
\* What is kept of a call once the next one starts: its name and its
\* outcome, and the arguments of a property access or of a call that writes
\* to the device.
KeptOps == {"get", "set", "setitem", "setraw", "eeprom_setitem",
            "eeprom_setslice"}
Summary(c, o) ==
    [op |-> c.op, args |-> IF c.op \in KeptOps THEN c.args ELSE <<>>,
     outcome |-> o]

\* A public call starts: the previous call is summarised, the record of the
\* running call is cleared.
Begin(op, args) ==
    /\ pc = "idle"
    /\ ncalls < MaxCalls
    /\ ncalls' = ncalls + 1
    /\ prev' = Summary(call, outcome)
    /\ call' = [op |-> op, args |-> args]
    /\ log' = <<>>
    /\ resp' = NoResp

\* The call runs on into sendCommand(c, check) at call site `site`.
Send(c, chk, site) ==
    /\ req' = [cmd |-> c, check |-> chk]
    /\ io' = "write"
    /\ pc' = site
    /\ outcome' = "running"
    /\ ret' = <<>>

\* The call returns v to its caller.
Return(v) ==
    /\ pc' = "idle"
    /\ io' = "none"
    /\ req' = NoReq
    /\ frame' = NoFrame
    /\ outcome' = "returned"
    /\ ret' = v

\* The call is left by an exception carrying the arguments `code`.  One raised
\* inside __init__ leaves no session object behind.
Raise(kind, code) ==
    /\ pc' = IF pc = "init" THEN "dead" ELSE "idle"
    /\ io' = "none"
    /\ req' = NoReq
    /\ frame' = NoFrame
    /\ outcome' = kind
    /\ ret' = code

\* ------------------------------------------------------------ sendCommand
\* Mutant of HidWrite: sendCommand returns after the write, the read left out.
HidWriteOnly ==
    /\ io = "write"
    /\ io' = "done"
    /\ log' = Append(log, [cmd |-> req.cmd, status |-> Pending, field |-> <<>>])
    /\ UNCHANGED <<pc, req, resp, frame, call, outcome, ret, prev, ncalls,
                   session, device>>

\* self.hid.write(command_data)
HidWrite ==
    /\ io = "write"
    /\ io' = "read"
    /\ log' = Append(log, [cmd |-> req.cmd, status |-> Pending, field |-> <<>>])
    /\ UNCHANGED <<pc, req, resp, frame, call, outcome, ret, prev, ncalls,
                   session, device>>

\* Mutant of FrameAccepted: a frame of any length is decoded.
FrameAcceptedAny(size) == TRUE

\* Whether from_buffer_copy accepts the frame that was read.
FrameAccepted(size) == size >= ReportSize

\* a status check that never raises
StatusRaisesNever(status, chk) == FALSE

\* a status check that lets 0xF8 pass for every command
StatusRaisesUnlessBusy(status, chk) == status \notin {Success, Busy} /\ chk

\* if response.status != 0 and check: raise CommandException(response.status)
StatusRaises(status, chk) == status # 0 /\ chk

\* response_data = bytes(self.hid.read(64)); RESPONSE.from_buffer_copy; the
\* status check; return response
HidRead ==
    /\ io = "read"
    /\ \E ch \in DevChoices(req.cmd) : LET ans == DevAnswer(req.cmd, ch) IN
        /\ DevApply(req.cmd, ans)
        /\ log' = [log EXCEPT ![Len(log)] =
                       [cmd |-> req.cmd, status |-> ans.status, field |-> ans.field]]
        /\ IF ~FrameAccepted(ans.size)
           THEN Raise("ValueError", <<>>) /\ UNCHANGED resp
           ELSE IF StatusRaises(ans.status, req.check)
           THEN Raise("CommandException", <<ans.status>>) /\ UNCHANGED resp
           ELSE /\ io' = "done"
                /\ resp' = [status |-> ans.status, field |-> ans.field]
                /\ UNCHANGED <<pc, req, frame, outcome, ret>>
    /\ UNCHANGED <<call, prev, ncalls, session>>

\* --------------------------------------------- __init__ and cancel_transfer
\* Mutant of Construct: __init__ returns the session without cancel_transfer().
ConstructNoCancel ==
    /\ pc = "new"
    /\ call' = [op |-> "__init__", args |-> <<>>]
    /\ Return(<<>>)
    /\ UNCHANGED <<resp, log, prev, ncalls, session, device>>

\* MCP2210.__init__: open the device, build the accessors, cancel_transfer()
Construct ==
    /\ pc = "new"
    /\ call' = [op |-> "__init__", args |-> <<>>]
    /\ Send(Command("CancelTransfer", <<>>), TRUE, "init")
    /\ UNCHANGED <<resp, frame, log, prev, ncalls, session, device>>

\* MCP2210.cancel_transfer
CancelTransferCall ==
    /\ Begin("cancel_transfer", <<>>)
    /\ Send(Command("CancelTransfer", <<>>), TRUE, "cancel")
    /\ UNCHANGED <<frame, session, device>>

\* sendCommand returned to cancel_transfer, which returns (to __init__, which
\* returns the session, or to the caller)
CancelTransferReturn ==
    /\ io = "done"
    /\ pc \in {"init", "cancel"}
    /\ Return(<<>>)
    /\ UNCHANGED <<resp, call, log, prev, ncalls, session, device>>

\* MCP2210.authenticate
AuthenticateCall ==
    /\ \E password \in {"secret"} :
        /\ Begin("authenticate", <<password>>)
        /\ Send(Command("SendPassword", <<password>>), TRUE, "auth")
    /\ UNCHANGED <<frame, session, device>>

AuthenticateReturn ==
    /\ io = "done"
    /\ pc = "auth"
    /\ Return(<<>>)
    /\ UNCHANGED <<resp, call, log, prev, ncalls, session, device>>

\* --------------------------------------------------------------- transfer
\* Lengths of the buffers handed to transfer, and the buffers: byte k of a
\* buffer is k mod 256, so that the chunks of one buffer all differ.
TxLens == {0, 1, 11, ChunkSize, ChunkSize + 1, 2 * ChunkSize, 2 * ChunkSize + 10}
TxBuffer(n) == [k \in 1..n |-> (k - 1) % 256]
TxBuffers == {TxBuffer(n) : n \in TxLens}

\* Mutant of WithTxSize: the size is left as it was fetched.
WithTxSizeKept(settings, n) == settings

\* settings.spi_tx_size = len(data)
WithTxSize(settings, n) == [settings EXCEPT !.spi_tx_size = n]

\* Mutant of ChunkCommand: the slice is one byte too long.
ChunkCommandLong(data, i) ==
    Command("SPITransfer", Slice(data, i, i + ChunkSize + 1))

\* commands.SPITransferCommand(data[i:i + 60])
ChunkCommand(data, i) == Command("SPITransfer", Slice(data, i, i + ChunkSize))

\* commands.SPITransferCommand(b'')
DrainCommand == Command("SPITransfer", <<>>)

\* for i in range(0, len(data), 60): the offset after i, and whether the loop
\* has a round for offset i
NextOffset(i) == i + ChunkSize
InRange(i, data) == i < Len(data)

\* Mutant of Retries: the retry loop is left after one request.
RetriesNever(status) == FALSE

\* Mutant of Retries: a Busy status ends the retry loop like Success.
RetriesNotOnBusy(status) == status # 0 /\ status # Busy

\* while status != 0
Retries(status) == status # 0

\* Mutant of Fatal: only a status above 0xf8 is fatal.
FatalAboveBusy(status) == status > Busy

\* if status not in (0, 0xf8): raise CommandException(status)
Fatal(status) == status \notin {0, Busy}

\* Mutants of NeedsDrain: the loop stops one byte early; the loop runs once
\* more when the buffer is exactly full.
NeedsDrainShort(response, data) == Len(response) + 1 < Len(data)
NeedsDrainEqual(response, data) == Len(response) <= Len(data)

\* while len(response) < len(data)
NeedsDrain(response, data) == Len(response) < Len(data)

\* Mutant of Accumulate: the data goes in front of what was received.
AccumulateInFront(response, r) == r.field \o response

\* response += r.data
Accumulate(response, r) == response \o r.field

TransferFrame(data, i, response, drains) ==
    [op |-> "transfer", data |-> data, i |-> i, response |-> response,
     drains |-> drains]

\* Mutant of PushTransferSettings: the settings are written to the device
\* and not kept on the session.
PushTransferSettingsUncached(settings) ==
    /\ UNCHANGED cache
    /\ Send(Command("SetSPISettings", <<settings>>), TRUE, "transfer_set")

\* self.transfer_settings = settings: the setter of the remote property, on
\* the way into the transfer loops
PushTransferSettings(settings) ==
    /\ cache' = [cache EXCEPT !["transfer_settings"] = Cached(settings)]
    /\ Send(Command("SetSPISettings", <<settings>>), TRUE, "transfer_set")

\* transfer(data), up to its first command: settings = self.transfer_settings
\* (a fetch unless cached), settings.spi_tx_size = len(data),
\* self.transfer_settings = settings
TransferCallOf(buffers) ==
    /\ \E data \in buffers :
        /\ Begin("transfer", <<data>>)
        /\ frame' = TransferFrame(data, 0, <<>>, 0)
        /\ IF IsCached(cache["transfer_settings"])
           THEN PushTransferSettings(
                    WithTxSize(ValueOf(cache["transfer_settings"]), Len(data)))
           ELSE /\ Send(Command("GetSPISettings", <<>>), TRUE, "transfer_get")
                /\ UNCHANGED cache
    /\ UNCHANGED <<gpioCache, device>>

TransferCall == TransferCallOf(TxBuffers)

\* the fetch of transfer_settings returned: cache it, set the size, push it
TransferSettingsFetched ==
    /\ io = "done"
    /\ pc = "transfer_get"
    /\ PushTransferSettings(WithTxSize(resp.field, Len(frame.data)))
    /\ UNCHANGED <<resp, frame, call, log, prev, ncalls, gpioCache, device>>

\* the loops are left: while len(response) < len(data) sends a drain
\* request, otherwise return response
DrainOrReturn(data, i, response, drains) ==
    IF NeedsDrain(response, data)
    THEN /\ drains < MaxDrain
         /\ frame' = TransferFrame(data, i, response, drains + 1)
         /\ Send(DrainCommand, FALSE, "transfer_drain")
    ELSE Return(response)

\* the for loop stands at offset i: send its chunk, or leave the loop
ChunkOrDrain(data, i, response, drains) ==
    IF InRange(i, data)
    THEN /\ frame' = TransferFrame(data, i, response, drains)
         /\ Send(ChunkCommand(data, i), FALSE, "transfer_chunk")
    ELSE DrainOrReturn(data, i, response, drains)

\* the push of transfer_settings returned: response = b'' and into the for loop
TransferSettingsPushed ==
    /\ io = "done"
    /\ pc = "transfer_set"
    /\ ChunkOrDrain(frame.data, 0, <<>>, 0)
    /\ UNCHANGED <<resp, call, log, prev, ncalls, session, device>>

\* sendCommand returned inside the for loop: raise, send the chunk again, or
\* append the data and go on to the next offset
TransferChunkAnswered ==
    /\ io = "done"
    /\ pc = "transfer_chunk"
    /\ IF Fatal(resp.status)
       THEN Raise("CommandException", <<resp.status>>)
       ELSE IF Retries(resp.status)
       THEN /\ Send(ChunkCommand(frame.data, frame.i), FALSE, "transfer_chunk")
            /\ UNCHANGED frame
       ELSE ChunkOrDrain(frame.data, NextOffset(frame.i),
                         Accumulate(frame.response, resp), frame.drains)
    /\ UNCHANGED <<resp, call, log, prev, ncalls, session, device>>

\* sendCommand returned inside the drain loop
TransferDrainAnswered ==
    /\ io = "done"
    /\ pc = "transfer_drain"
    /\ IF Fatal(resp.status)
       THEN Raise("CommandException", <<resp.status>>)
       ELSE IF Retries(resp.status)
       THEN /\ Send(DrainCommand, FALSE, "transfer_drain")
            /\ UNCHANGED frame
       ELSE DrainOrReturn(frame.data, frame.i,
                          Accumulate(frame.response, resp), frame.drains)
    /\ UNCHANGED <<resp, call, log, prev, ncalls, session, device>>

\* ------------------------------------------------------- remote_property
NameValues == {"Foobar Industries Ltd", "Foobinator 1.0"}
Settings(size, rate) == [spi_tx_size |-> size, bit_rate |-> rate]
SettingsValues == {Settings(0, 1), Settings(4, 2)}
ValuesOf(p) == IF p \in NameProps THEN NameValues ELSE SettingsValues

\* a getter that never finds the attribute
CacheHitNever(p) == FALSE

\* getter: try: return getattr(self, name)
CacheHit(p) == IsCached(cache[p])

\* a setter without its setattr
StoreDropped(p, value) == cache

\* setattr(self, name, value)
Store(p, value) == [cache EXCEPT ![p] = Cached(value)]

\* get_command() / set_command(value) of property p
FetchCommand(p) == Command(GetCommandOf(p), <<>>)
PushCommand(p, value) == Command(SetCommandOf(p), <<value>>)

\* getter(self) of one of the properties `props`: the cached attribute, or a
\* fetch
GetterCallOf(props) ==
    /\ \E p \in props :
        /\ Begin("get", <<p>>)
        /\ IF CacheHit(p)
           THEN Return(ValueOf(cache[p]))
           ELSE /\ frame' = [op |-> "get", name |-> p]
                /\ Send(FetchCommand(p), TRUE, "prop_get")
    /\ UNCHANGED <<session, device>>

GetterCall == GetterCallOf(PropNames)

\* except AttributeError: value = getattr(response, field_name);
\* setattr(self, name, value); return value
GetterFetched ==
    /\ io = "done"
    /\ pc = "prop_get"
    /\ cache' = Store(frame.name, resp.field)
    /\ Return(resp.field)
    /\ UNCHANGED <<resp, call, log, prev, ncalls, gpioCache, device>>

\* setter(self, value) of one of the properties `props`:
\* setattr(self, name, value); self.sendCommand(set_command(value))
SetterCallOf(props) ==
    /\ \E p \in props : \E value \in ValuesOf(p) :
        /\ Begin("set", <<p, value>>)
        /\ cache' = Store(p, value)
        /\ frame' = [op |-> "set", name |-> p]
        /\ Send(PushCommand(p, value), TRUE, "prop_set")
    /\ UNCHANGED <<gpioCache, device>>

SetterCall == SetterCallOf(PropNames)

\* sendCommand returned to the setter, which returns
SetterPushed ==
    /\ io = "done"
    /\ pc = "prop_set"
    /\ Return(<<>>)
    /\ UNCHANGED <<resp, call, log, prev, ncalls, session, device>>

\* ----------------------------------------------------------- GPIOSettings
\* Highest bit index used, and the words the device holds at first or the
\* caller assigns: no bit, the highest bit, every bit.
MaxBit == 2
RECURSIVE Pow2(_)
Pow2(n) == IF n = 0 THEN 1 ELSE 2 * Pow2(n - 1)
BitIndexes == 0..MaxBit
GpioWords == {0, Pow2(MaxBit), Pow2(MaxBit + 1) - 1}

\* (self.raw >> i) & 1
Bit(word, i) == (word \div Pow2(i)) % 2

\* self.raw | 1 << i
SetBit(word, i) == IF Bit(word, i) = 1 THEN word ELSE word + Pow2(i)

\* self.raw & (1 << i), the complement left out
ClearBitNoInvert(word, i) == Bit(word, i) * Pow2(i)

\* self.raw & ~(1 << i)
ClearBit(word, i) == IF Bit(word, i) = 1 THEN word - Pow2(i) ELSE word

\* __setitem__: if value: self.raw |= 1 << i else: self.raw &= ~(1 << i)
WithBit(word, i, value) == IF value THEN SetBit(word, i) ELSE ClearBit(word, i)

\* raw.setter: self._value = value; self._device.sendCommand(set_command(value))
SetRaw(g, value) ==
    /\ gpioCache' = [gpioCache EXCEPT ![g] = Cached(value)]
    /\ Send(Command(GpioSetCommandOf(g), <<value>>), TRUE, "gpio_set")

\* raw (getter) with self._value None: sendCommand(get_command())
FetchRaw(g, site) == Send(Command(GpioGetCommandOf(g), <<>>), TRUE, site)

\* GPIOSettings.__getitem__(i)
GpioGetItemCall ==
    /\ \E g \in GpioNames : \E i \in BitIndexes :
        /\ Begin("getitem", <<g, i>>)
        /\ IF IsCached(gpioCache[g])
           THEN Return(Bit(ValueOf(gpioCache[g]), i))
           ELSE /\ frame' = [op |-> "getitem", g |-> g, i |-> i]
                /\ FetchRaw(g, "gpio_getitem")
    /\ UNCHANGED <<session, device>>

\* the fetch inside __getitem__ returned: self._value = response.gpio
GpioGetItemFetched ==
    /\ io = "done"
    /\ pc = "gpio_getitem"
    /\ gpioCache' = [gpioCache EXCEPT ![frame.g] = Cached(resp.field)]
    /\ Return(Bit(resp.field, frame.i))
    /\ UNCHANGED <<resp, call, log, prev, ncalls, cache, device>>

\* GPIOSettings.__setitem__(i, value): read self.raw, assign self.raw
GpioSetItemCall ==
    /\ \E g \in GpioNames : \E i \in BitIndexes : \E value \in BOOLEAN :
        /\ Begin("setitem", <<g, i, value>>)
        /\ IF IsCached(gpioCache[g])
           THEN /\ frame' = [op |-> "setitem", g |-> g, i |-> i, value |-> value,
                             old |-> ValueOf(gpioCache[g])]
                /\ SetRaw(g, WithBit(ValueOf(gpioCache[g]), i, value))
           ELSE /\ frame' = [op |-> "setitem", g |-> g, i |-> i, value |-> value,
                             old |-> -1]
                /\ FetchRaw(g, "gpio_setitem")
                /\ UNCHANGED gpioCache
    /\ UNCHANGED <<cache, device>>

\* the fetch inside __setitem__ returned: the word is cached, changed and set
GpioSetItemFetched ==
    /\ io = "done"
    /\ pc = "gpio_setitem"
    /\ frame' = [frame EXCEPT !.old = resp.field]
    /\ SetRaw(frame.g, WithBit(resp.field, frame.i, frame.value))
    /\ UNCHANGED <<resp, call, log, prev, ncalls, cache, device>>

\* GPIOSettings.raw = value
GpioSetRawCall ==
    /\ \E g \in GpioNames : \E value \in GpioWords :
        /\ Begin("setraw", <<g, value>>)
        /\ frame' = [op |-> "setraw", g |-> g]
        /\ SetRaw(g, value)
    /\ UNCHANGED <<cache, device>>

\* sendCommand returned to raw.setter, which returns
GpioSetReturn ==
    /\ io = "done"
    /\ pc = "gpio_set"
    /\ Return(<<>>)
    /\ UNCHANGED <<resp, call, log, prev, ncalls, session, device>>

\* ------------------------------------------------------------- EEPROMData
\* Longest list of values written by one slice assignment, and longest slice.
MaxSpan == 4

\* One bound of slice(start, stop).indices(length), the step being 1: a
\* negative bound counts from the end, then both are clamped to 0..length.
AdjustIndex(k, length) == IF k < 0 THEN Max(k + length, 0) ELSE Min(k, length)

RECURSIVE Range(_, _)
Range(a, b) == IF a >= b THEN <<>> ELSE <<a>> \o Range(a + 1, b)

\* range(*key.indices(256)), one address more
SliceAddressesWhole(start, stop) ==
    Range(AdjustIndex(start, EepromSize + 1), AdjustIndex(stop, EepromSize + 1))

\* range(*key.indices(255))
SliceAddresses(start, stop) ==
    Range(AdjustIndex(start, EepromSize), AdjustIndex(stop, EepromSize))

\* commands.ReadEEPROMCommand(key) / commands.WriteEEPROMCommand(key, value)
ReadCommand(key) == Command("ReadEEPROM", <<key>>)
WriteCommandSwapped(key, value) == Command("WriteEEPROM", <<value, key>>)
WriteCommand(key, value) == Command("WriteEEPROM", <<key, value>>)

\* [self[i] for i in ...]: the list grows at its end
CollectInFront(acc, item) == <<item>> \o acc
Collect(acc, item) == Append(acc, item)

\* The keys, bytes, slices and lists the caller uses.
EepromKeys == {0, 12, 254}
EepromBytes == {8, 255}
SliceStarts == {-2, 0, 10, 253}
SliceLens == {0, 1, MaxSpan}
ValueList(n) == [k \in 1..n |-> Pow2(k) % 256]
ValueLists == {ValueList(n) : n \in SliceLens}

\* eeprom[key], key an integer
EepromGetItemCall ==
    /\ \E key \in EepromKeys :
        /\ Begin("eeprom_getitem", <<key>>)
        /\ frame' = [op |-> "eeprom_getitem"]
        /\ Send(ReadCommand(key), TRUE, "eeprom_getitem")
    /\ UNCHANGED <<session, device>>

\* return sendCommand(ReadEEPROMCommand(key)).data
EepromGetItemAnswered ==
    /\ io = "done"
    /\ pc = "eeprom_getitem"
    /\ Return(resp.field)
    /\ UNCHANGED <<resp, call, log, prev, ncalls, session, device>>

\* eeprom[start:stop]: [self[i] for i in range(*key.indices(255))]
EepromGetSliceCall ==
    /\ \E start \in SliceStarts : \E n \in SliceLens :
        LET addrs == SliceAddresses(start, start + n) IN
        /\ Begin("eeprom_getslice", <<start, start + n>>)
        /\ IF addrs = <<>>
           THEN Return(<<>>)
           ELSE /\ frame' = [op |-> "eeprom_getslice", addrs |-> addrs, k |-> 1,
                             acc |-> <<>>]
                /\ Send(ReadCommand(addrs[1]), TRUE, "eeprom_getslice")
    /\ UNCHANGED <<session, device>>

\* self[i] returned inside the list comprehension
EepromGetSliceAnswered ==
    /\ io = "done"
    /\ pc = "eeprom_getslice"
    /\ LET acc == Collect(frame.acc, resp.field) IN
       IF frame.k < Len(frame.addrs)
       THEN /\ frame' = [frame EXCEPT !.k = frame.k + 1, !.acc = acc]
            /\ Send(ReadCommand(frame.addrs[frame.k + 1]), TRUE, "eeprom_getslice")
       ELSE Return(acc)
    /\ UNCHANGED <<resp, call, log, prev, ncalls, session, device>>

\* eeprom[key] = value, key an integer
EepromSetItemCall ==
    /\ \E key \in EepromKeys : \E value \in EepromBytes :
        /\ Begin("eeprom_setitem", <<key, value>>)
        /\ frame' = [op |-> "eeprom_setitem"]
        /\ Send(WriteCommand(key, value), TRUE, "eeprom_setitem")
    /\ UNCHANGED <<session, device>>

\* sendCommand(WriteEEPROMCommand(key, value)) returned
EepromSetItemAnswered ==
    /\ io = "done"
    /\ pc = "eeprom_setitem"
    /\ Return(<<>>)
    /\ UNCHANGED <<resp, call, log, prev, ncalls, session, device>>

\* for i, j in enumerate(range(...)): self[j] = value[i], at round k
SetSliceRound(addrs, value, k) ==
    IF k > Len(addrs)
    THEN Return(<<>>)
    ELSE IF k > Len(value)
    THEN Raise("IndexError", <<>>)
    ELSE /\ frame' = [op |-> "eeprom_setslice", addrs |-> addrs, value |-> value,
                      k |-> k]
         /\ Send(WriteCommand(addrs[k], value[k]), TRUE, "eeprom_setslice")

\* eeprom[start:start + len(value)] = value
EepromSetSliceCall ==
    /\ \E start \in SliceStarts : \E value \in ValueLists :
        /\ Begin("eeprom_setslice", <<start, start + Len(value), value>>)
        /\ SetSliceRound(SliceAddresses(start, start + Len(value)), value, 1)
    /\ UNCHANGED <<session, device>>

\* self[j] = value[i] returned inside the for loop
EepromSetSliceAnswered ==
    /\ io = "done"
    /\ pc = "eeprom_setslice"
    /\ SetSliceRound(frame.addrs, frame.value, frame.k + 1)
    /\ UNCHANGED <<resp, call, log, prev, ncalls, session, device>>

\* ------------------------------------------------------ initial conditions

\* The session before MCP2210(...) is called, with the device holding names
\* nv, settings sv, GPIO words gw and EEPROM bytes ee.
InitWith(nv, sv, gw, ee) ==
    /\ pc = "new"
    /\ io = "none"
    /\ req = NoReq
    /\ resp = NoResp
    /\ frame = NoFrame
    /\ call = NoCall
    /\ outcome = "none"
    /\ ret = <<>>
    /\ log = <<>>
    /\ prev = [op |-> "none", args |-> <<>>, outcome |-> "none"]
    /\ ncalls = 0
    /\ cache = [p \in PropNames |-> Absent]
    /\ gpioCache = [g \in GpioNames |-> Absent]
    /\ devProp = [p \in PropNames |-> IF p \in NameProps THEN nv ELSE sv]
    /\ devGpio = [g \in GpioNames |-> gw]
    /\ devEeprom = ee

\* EEPROM contents at power-up: byte a holds a.
EepromPattern == [a \in 0..255 |-> a]

\* --------------------------------------------- the session making transfers
InitTransfer ==
    InitWith("Foobar Industries Ltd", Settings(4, 2), 0, EepromPattern)

NextTransfer ==
    \/ Construct
    \/ CancelTransferReturn
    \/ HidWrite
    \/ HidRead
    \/ TransferCall
    \/ TransferSettingsFetched
    \/ TransferSettingsPushed
    \/ TransferChunkAnswered
    \/ TransferDrainAnswered

SpecTransfer == InitTransfer /\ [][NextTransfer]_vars

\* ------------------------------------ the session using remote properties
InitProps ==
    \E nv \in NameValues : \E sv \in SettingsValues :
        InitWith(nv, sv, 0, EepromPattern)

NextProps ==
    \/ Construct
    \/ CancelTransferReturn
    \/ HidWrite
    \/ HidRead
    \/ GetterCall
    \/ GetterFetched
    \/ SetterCall
    \/ SetterPushed

SpecProps == InitProps /\ [][NextProps]_vars

\* ------------------------------------------- the session using the GPIOs
InitGpio ==
    \E gw \in GpioWords :
        InitWith("Foobar Industries Ltd", Settings(4, 2), gw, EepromPattern)

NextGpio ==
    \/ Construct
    \/ CancelTransferReturn
    \/ HidWrite
    \/ HidRead
    \/ GpioGetItemCall
    \/ GpioGetItemFetched
    \/ GpioSetItemCall
    \/ GpioSetItemFetched
    \/ GpioSetRawCall
    \/ GpioSetReturn

SpecGpio == InitGpio /\ [][NextGpio]_vars

\* ------------------------ the session using what it caches of the device
\* Properties and GPIO words together: one property of each kind, both words.
CachedProps == {"manufacturer_name", "transfer_settings"}

InitCached == InitGpio

NextCached ==
    \/ Construct
    \/ CancelTransferReturn
    \/ HidWrite
    \/ HidRead
    \/ GetterCallOf(CachedProps)
    \/ GetterFetched
    \/ SetterCallOf(CachedProps)
    \/ SetterPushed
    \/ GpioGetItemCall
    \/ GpioGetItemFetched
    \/ GpioSetItemCall
    \/ GpioSetItemFetched
    \/ GpioSetRawCall
    \/ GpioSetReturn

SpecCached == InitCached /\ [][NextCached]_vars

\* ------------------- the session making transfers and using their settings
SettingsProp == {"transfer_settings"}

InitSettings == InitTransfer

NextSettings ==
    \/ Construct
    \/ CancelTransferReturn
    \/ HidWrite
    \/ HidRead
    \/ TransferCallOf({TxBuffer(0), TxBuffer(1)})
    \/ TransferSettingsFetched
    \/ TransferSettingsPushed
    \/ TransferChunkAnswered
    \/ TransferDrainAnswered
    \/ GetterCallOf(SettingsProp)
    \/ GetterFetched
    \/ SetterCallOf(SettingsProp)
    \/ SetterPushed

SpecSettings == InitSettings /\ [][NextSettings]_vars

\* ------------------------------------------ the session using the EEPROM
InitEeprom ==
    InitWith("Foobar Industries Ltd", Settings(4, 2), 0, EepromPattern)

NextEeprom ==
    \/ Construct
    \/ CancelTransferReturn
    \/ HidWrite
    \/ HidRead
    \/ EepromGetItemCall
    \/ EepromGetItemAnswered
    \/ EepromGetSliceCall
    \/ EepromGetSliceAnswered
    \/ EepromSetItemCall
    \/ EepromSetItemAnswered
    \/ EepromSetSliceCall
    \/ EepromSetSliceAnswered

SpecEeprom == InitEeprom /\ [][NextEeprom]_vars

\* ------------------------------------------------- the session, every call
\* One more call than the construction, of any kind.
MaxMixed == 1
Shallow == ncalls < MaxMixed

Init ==
    InitWith("Foobar Industries Ltd", Settings(4, 2), Pow2(MaxBit), EepromPattern)

Next ==
    \/ Construct
    \/ CancelTransferReturn
    \/ HidWrite
    \/ HidRead
    \/ Shallow /\ CancelTransferCall
    \/ Shallow /\ AuthenticateCall
    \/ AuthenticateReturn
    \/ Shallow /\ TransferCallOf({TxBuffer(1), TxBuffer(ChunkSize + 1)})
    \/ TransferSettingsFetched
    \/ TransferSettingsPushed
    \/ TransferChunkAnswered
    \/ TransferDrainAnswered
    \/ Shallow /\ GetterCall
    \/ GetterFetched
    \/ Shallow /\ SetterCall
    \/ SetterPushed
    \/ Shallow /\ GpioGetItemCall
    \/ GpioGetItemFetched
    \/ Shallow /\ GpioSetItemCall
    \/ GpioSetItemFetched
    \/ Shallow /\ GpioSetRawCall
    \/ GpioSetReturn
    \/ Shallow /\ EepromGetItemCall
    \/ EepromGetItemAnswered
    \/ Shallow /\ EepromGetSliceCall
    \/ EepromGetSliceAnswered
    \/ Shallow /\ EepromSetItemCall
    \/ EepromSetItemAnswered
    \/ Shallow /\ EepromSetSliceCall
    \/ EepromSetSliceAnswered

Spec == Init /\ [][Next]_vars

\* ------------------------------- the session making transfers, unbounded
\* The transfer loops with nothing counted: the log keeps the last requests
\* only and the drain rounds are not numbered, so that a device which
\* answers Busy, or Success without data, may go on doing so for ever.
Recent(l) == SubSeq(l, Max(1, Len(l) - MaxBusy + 1), Len(l))

\* self.hid.write(command_data)
HidWriteRecent ==
    /\ io = "write"
    /\ io' = "read"
    /\ log' = Recent(Append(log, [cmd |-> req.cmd, status |-> Pending,
                                  field |-> <<>>]))
    /\ UNCHANGED <<pc, req, resp, frame, call, outcome, ret, prev, ncalls,
                   session, device>>

\* while len(response) < len(data): a drain request, otherwise return response
DrainOrReturnUncounted(data, i, response) ==
    IF NeedsDrain(response, data)
    THEN /\ frame' = TransferFrame(data, i, response, 0)
         /\ Send(DrainCommand, FALSE, "transfer_drain")
    ELSE Return(response)

\* the for loop stands at offset i: send its chunk, or leave the loop
ChunkOrDrainUncounted(data, i, response) ==
    IF InRange(i, data)
    THEN /\ frame' = TransferFrame(data, i, response, 0)
         /\ Send(ChunkCommand(data, i), FALSE, "transfer_chunk")
    ELSE DrainOrReturnUncounted(data, i, response)

\* the push of transfer_settings returned: response = b'' and into the for loop
TransferSettingsPushedUncounted ==
    /\ io = "done"
    /\ pc = "transfer_set"
    /\ ChunkOrDrainUncounted(frame.data, 0, <<>>)
    /\ UNCHANGED <<resp, call, log, prev, ncalls, session, device>>

\* sendCommand returned inside the for loop
TransferChunkAnsweredUncounted ==
    /\ io = "done"
    /\ pc = "transfer_chunk"
    /\ IF Fatal(resp.status)
       THEN Raise("CommandException", <<resp.status>>)
       ELSE IF Retries(resp.status)
       THEN /\ Send(ChunkCommand(frame.data, frame.i), FALSE, "transfer_chunk")
            /\ UNCHANGED frame
       ELSE ChunkOrDrainUncounted(frame.data, NextOffset(frame.i),
                                  Accumulate(frame.response, resp))
    /\ UNCHANGED <<resp, call, log, prev, ncalls, session, device>>

\* sendCommand returned inside the drain loop
TransferDrainAnsweredUncounted ==
    /\ io = "done"
    /\ pc = "transfer_drain"
    /\ IF Fatal(resp.status)
       THEN Raise("CommandException", <<resp.status>>)
       ELSE IF Retries(resp.status)
       THEN /\ Send(DrainCommand, FALSE, "transfer_drain")
            /\ UNCHANGED frame
       ELSE DrainOrReturnUncounted(frame.data, frame.i,
                                   Accumulate(frame.response, resp))
    /\ UNCHANGED <<resp, call, log, prev, ncalls, session, device>>

NextLoop ==
    \/ Construct
    \/ CancelTransferReturn
    \/ HidWriteRecent
    \/ HidRead
    \/ TransferCallOf({TxBuffer(0), TxBuffer(1), TxBuffer(ChunkSize + 1)})
    \/ TransferSettingsFetched
    \/ TransferSettingsPushedUncounted
    \/ TransferChunkAnsweredUncounted
    \/ TransferDrainAnsweredUncounted

\* The device answers the SPITransfer request that waits with Success, and
\* with at least one byte of data when it is a drain request.
Delivers ==
    /\ HidRead
    /\ req.cmd.code = "SPITransfer"
    /\ log'[Len(log')].status = Success
    /\ req.cmd.arg = <<>> => log'[Len(log')].field # <<>>

\* Every step moves sendCommand or the call that waits for it.
position == <<pc, io>>

\* The program is sequential and its reads block until the device answers:
\* whenever a step can be taken, one is taken.
SpecLoop ==
    /\ InitTransfer
    /\ [][NextLoop]_vars
    /\ WF_position(NextLoop)

\* =================================================================== properties
\* What the properties read off a transfer call: its buffer, its SPITransfer
\* requests in the order written, and the chunks the buffer divides into.
Tx == call.args[1]
IsSpi(e) == e.cmd.code = "SPITransfer"
SpiLog == SelectSeq(log, IsSpi)
NotBusy(e) == e.status # Busy
IsChunkDone(e) == e.status = Success /\ e.cmd.arg # <<>>
NumChunks(n) == (n + ChunkSize - 1) \div ChunkSize
ExpectedChunk(tx, j) ==
    SubSeq(tx, ChunkSize * (j - 1) + 1, Min(ChunkSize * j, Len(tx)))
ExpectedRequest(tx, j) ==
    IF j <= NumChunks(Len(tx)) THEN ExpectedChunk(tx, j) ELSE <<>>
ChunkIndex(tx, payload) ==
    CHOOSE j \in 1..NumChunks(Len(tx)) : payload = ExpectedChunk(tx, j)
TransferReturned ==
    call.op = "transfer" /\ outcome = "returned" /\ pc = "idle"

\* C1 (as stated): whenever transfer(tx) returns, the buffer it returns has
\* exactly len(tx) bytes, whatever number of data bytes (0 to 60) each
\* Success response carried.
C1_ExactLength ==
    TransferReturned => Len(ret) = Len(Tx)

\* C1 (amended): whenever transfer(tx) returns, the buffer it returns holds
\* every data byte the Success responses carried, which are at least len(tx)
\* bytes and fewer than len(tx) + 60 beyond the chunk phase; nothing is cut
\* off, so the length is exactly len(tx) when the device delivered no more
\* than len(tx) bytes in all.
C1_AtLeastLength ==
    TransferReturned =>
        /\ Len(ret) >= Len(Tx)
        /\ Len(ret) = Delivered(log)
        /\ Len(ret) <= Max(Len(Tx) + ChunkSize - 1, ChunkSize * NumChunks(Len(Tx)))

\* C1 witness: a 61-byte buffer came back as exactly 61 bytes, the last of
\* them fetched by a drain request.
C1_Witness ==
    /\ TransferReturned
    /\ Len(Tx) = ChunkSize + 1
    /\ Len(ret) = ChunkSize + 1
    /\ Len(SpiLog) > 2

\* C2: a chunk answered Busy is sent again with the identical payload until
\* it is answered Success: N Busy answers make N+1 requests for the chunk,
\* the next chunk follows only then, and with the Busy-answered requests
\* left out the requests are the ones of a transfer without any Busy, in the
\* same order.
C2_BusyRetry ==
    call.op = "transfer" =>
        LET spi == SpiLog
            others == SelectSeq(spi, NotBusy)
        IN  /\ \A k \in 1..(Len(spi) - 1) :
                   spi[k].status = Busy => spi[k + 1].cmd = spi[k].cmd
            /\ \A k \in 1..(Len(spi) - 1) :
                   IsChunkDone(spi[k]) => spi[k + 1].cmd # spi[k].cmd
            /\ \A j \in 1..Len(others) :
                   others[j].cmd.arg = ExpectedRequest(Tx, j)
            /\ \A k \in 1..Len(spi) :
                   IsChunkDone(spi[k]) =>
                       LET same == {h \in 1..Len(spi) : spi[h].cmd = spi[k].cmd}
                           busy == {h \in same : spi[h].status = Busy}
                       IN  Cardinality(same) = Cardinality(busy) + 1

\* C2 witness: the first chunk of a 130-byte buffer was answered Busy twice
\* and then Success, and the second chunk has been sent after it.
C2_Witness ==
    /\ call.op = "transfer"
    /\ Len(Tx) = 2 * ChunkSize + 10
    /\ Len(SpiLog) >= 4
    /\ SpiLog[1].status = Busy
    /\ SpiLog[2].status = Busy
    /\ SpiLog[3].status = Success
    /\ SpiLog[4].cmd.arg = ExpectedChunk(Tx, 2)

\* C3: the requests of transfer(tx) carry the chunks tx[0:60], tx[60:120],
\* ... in ascending offset order, none longer than 60 bytes; no
\* empty-payload request is written before the last chunk was answered
\* Success; a transfer that returns has had exactly ceil(len/60) chunks
\* answered Success, each once; for 130 bytes their sizes are 60, 60, 10.
C3_ChunkOrder ==
    call.op = "transfer" =>
        LET spi == SpiLog
            m == NumChunks(Len(Tx))
            done == SelectSeq(spi, IsChunkDone)
        IN  /\ \A k \in 1..Len(spi) : Len(spi[k].cmd.arg) <= ChunkSize
            /\ \A k \in 1..Len(spi) :
                   spi[k].cmd.arg # <<>> =>
                       \E j \in 1..m : spi[k].cmd.arg = ExpectedChunk(Tx, j)
            /\ \A a, b \in 1..Len(spi) :
                   (a < b /\ spi[a].cmd.arg # <<>> /\ spi[b].cmd.arg # <<>>) =>
                       ChunkIndex(Tx, spi[a].cmd.arg) <= ChunkIndex(Tx, spi[b].cmd.arg)
            /\ \A k \in 1..Len(spi) :
                   spi[k].cmd.arg = <<>> =>
                       \E h \in 1..(k - 1) :
                           /\ spi[h].cmd.arg = ExpectedChunk(Tx, m)
                           /\ spi[h].status = Success
            /\ outcome = "returned" =>
                   /\ Len(done) = m
                   /\ \A j \in 1..m : done[j].cmd.arg = ExpectedChunk(Tx, j)
            /\ (outcome = "returned" /\ Len(Tx) = 130) =>
                   [j \in 1..Len(done) |-> Len(done[j].cmd.arg)] = <<60, 60, 10>>

\* C3 witness: a 130-byte transfer returned after its three chunks and at
\* least one drain request.
C3_Witness ==
    /\ TransferReturned
    /\ Len(Tx) = 130
    /\ \E k \in 1..Len(SpiLog) : SpiLog[k].cmd.arg = <<>>
    /\ Len(SelectSeq(SpiLog, IsChunkDone)) = 3

\* C4: an empty-payload request is written only while the data received so
\* far is shorter than len(tx), transfer does not return while it is
\* shorter, and no request follows once it is not; an 11-byte buffer whose
\* only chunk is answered Success with 11 bytes takes one SPITransfer
\* command and no drain.
C4_DrainIffShort ==
    call.op = "transfer" =>
        LET spi == SpiLog IN
        /\ \A k \in 1..Len(spi) :
               spi[k].cmd.arg = <<>> =>
                   Delivered(SubSeq(spi, 1, k - 1)) < Len(Tx)
        /\ outcome = "returned" => Delivered(spi) >= Len(Tx)
        /\ (Len(Tx) = 11 /\ Len(spi) >= 1 /\ spi[1].status = Success
                /\ Len(spi[1].field) = 11) => Len(spi) = 1

\* C4 witness: the 11-byte transfer that returned after a single SPITransfer
\* command answered with 11 bytes.
C4_Witness ==
    /\ TransferReturned
    /\ Len(Tx) = 11
    /\ Len(SpiLog) = 1
    /\ Len(ret) = 11

\* The property a get or set call names, and calls that returned.
PropOfCall == call.args[1]
Returned == outcome = "returned" /\ pc = "idle"
PrevReturned(op) == prev.op = op /\ prev.outcome = "returned"

\* C5, the calls as they stand: a get writes nothing but the fetch command of
\* its property, at most once; the first get of a session fetches exactly
\* once; a get right after a get or set of the same property that returned
\* writes no command, and after set(v) it returns v; a set(v) that returned
\* wrote exactly one command, the push carrying v.
C5_Calls ==
    /\ call.op = "get" =>
           /\ Len(log) <= 1
           /\ \A k \in 1..Len(log) : log[k].cmd = FetchCommand(PropOfCall)
           /\ Returned =>
                  /\ Len(log) = 1 => (log[1].status = Success /\ ret = log[1].field)
                  /\ ncalls = 1 => Len(log) = 1
                  /\ ((PrevReturned("get") \/ PrevReturned("set"))
                          /\ prev.args[1] = PropOfCall) => log = <<>>
                  /\ (PrevReturned("set") /\ prev.args[1] = PropOfCall) =>
                         ret = prev.args[2]
    /\ call.op = "set" =>
           /\ Len(log) <= 1
           /\ \A k \in 1..Len(log) :
                  log[k].cmd = PushCommand(PropOfCall, call.args[2])
           /\ Returned => (Len(log) = 1 /\ log[1].status = Success)

\* C5, the steps: a get that starts with the value absent sends the fetch
\* command, one that starts with the value present returns it at once and
\* sends nothing; a value is absent until a fetch answered Success or a set
\* stores it, and then stays present and changes only by a set.
C5_Steps ==
    /\ (pc = "idle" /\ ncalls' # ncalls /\ call'.op = "get") =>
           LET p == call'.args[1] IN
           IF IsCached(cache[p])
           THEN outcome' = "returned" /\ ret' = ValueOf(cache[p]) /\ io' = "none"
           ELSE outcome' = "running" /\ io' = "write"
                    /\ req'.cmd = FetchCommand(p)
    /\ \A p \in PropNames :
           cache'[p] # cache[p] =>
               \/ /\ ncalls' # ncalls
                  /\ call'.op = "set"
                  /\ call'.args = <<p, ValueOf(cache'[p])>>
               \/ /\ ~IsCached(cache[p])
                  /\ call = [op |-> "get", args |-> <<p>>]
                  /\ outcome' = "returned"
                  /\ Len(log) = 1
                  /\ log[1].status = Success
                  /\ cache'[p] = Cached(log[1].field)
                  /\ ret' = log[1].field

\* C5: for each cached remote property and any sequence of get and set calls
\* whose commands succeed, the first get with an absent cache issues exactly
\* one fetch command, every later get issues none, every set(v) issues
\* exactly one push command carrying v, and the next get after set(v)
\* returns v without a fetch.
C5_CachedProperty == []C5_Calls /\ [][C5_Steps]_vars

\* C5 witness: set(v) of a property returned and the get that followed
\* returned v without a command being written.
C5_Witness ==
    /\ PrevReturned("set")
    /\ call = [op |-> "get", args |-> <<prev.args[1]>>]
    /\ Returned
    /\ log = <<>>
    /\ ret = prev.args[2]

\* What a bit assignment reads as afterwards, and a word without its bit i.
BitOf(value) == IF value THEN 1 ELSE 0
WithoutBit(word, i) == word - Bit(word, i) * Pow2(i)
IsGpioSet(e) == e.cmd.code \in GpioSetCodes

\* C6, the calls as they stand: settings[i] = b writes at most one Get
\* command and then one Set command, the last of the call, which carries the
\* whole cached word with bit i equal to b; the call returns only after that
\* one Set command; settings[i] read right after it returns b and writes
\* no command.
C6_Calls ==
    /\ call.op = "setitem" =>
           LET g == call.args[1]
               i == call.args[2]
               sets == SelectSeq(log, IsGpioSet)
           IN  /\ Len(sets) <= 1
               /\ Len(log) <= 2
               /\ \A k \in 1..Len(log) :
                      IF IsGpioSet(log[k])
                      THEN /\ k = Len(log)
                           /\ log[k].cmd = Command(GpioSetCommandOf(g),
                                                   <<ValueOf(gpioCache[g])>>)
                           /\ Bit(ValueOf(gpioCache[g]), i) = BitOf(call.args[3])
                      ELSE log[k].cmd = Command(GpioGetCommandOf(g), <<>>)
               /\ Returned => (Len(sets) = 1 /\ sets[1].status = Success)
    /\ (call.op = "getitem" /\ Returned /\ PrevReturned("setitem")
            /\ prev.args[1] = call.args[1] /\ prev.args[2] = call.args[2]) =>
           (ret = BitOf(prev.args[3]) /\ log = <<>>)

\* C6, the steps: when settings[i] = b changes the cached word, the new word
\* has bit i equal to b and every other bit as in the word cached before, or
\* as in the word just fetched when none was cached, and the Set command
\* carrying the new word is the next thing written.
C6_Steps ==
    \A g \in GpioNames :
        (call'.op = "setitem" /\ gpioCache'[g] # gpioCache[g]) =>
            LET i == call'.args[2]
                new == ValueOf(gpioCache'[g])
                old == IF IsCached(gpioCache[g]) THEN ValueOf(gpioCache[g])
                       ELSE log[Len(log)].field
            IN  /\ g = call'.args[1]
                /\ Bit(new, i) = BitOf(call'.args[3])
                /\ WithoutBit(new, i) = WithoutBit(old, i)
                /\ IsCached(gpioCache[g]) <=> ncalls' # ncalls
                /\ io' = "write"
                /\ req'.cmd = Command(GpioSetCommandOf(g), <<new>>)

\* C6: for a GPIO bit-vector, every bit index i and boolean b, writeBit(i, b)
\* followed by readBit(i) returns b, every other bit of the cached word keeps
\* the value it had before the write, and the write issues exactly one
\* whole-word Set command carrying the new word.
C6_BitWrite == []C6_Calls /\ [][C6_Steps]_vars

\* C6 witness: bit 1 of a word with every bit set was cleared, the call
\* returned, and reading bit 1 returned 0 without a command.
C6_Witness ==
    /\ prev = [op |-> "setitem", args |-> <<"gpio_direction", 1, FALSE>>,
               outcome |-> "returned"]
    /\ call = [op |-> "getitem", args |-> <<"gpio_direction", 1>>]
    /\ Returned
    /\ ret = 0
    /\ gpioCache["gpio_direction"] = Cached(Pow2(MaxBit + 1) - 1 - 2)

\* Calls that ended, by a return or by an exception.
Ended == outcome \notin {"none", "running"}

\* C7: for every EEPROM address a in [0,255) and every byte v, when the
\* device answers Success, write(a, v) followed by read(a) returns v; each of
\* the two operations is exactly one command/response round trip, the write
\* one WriteEEPROM(a, v) and the read one ReadEEPROM(a) whose answer is what
\* it returns, so no value is served from a local cache.
C7_WriteRead ==
    /\ call.op = "eeprom_setitem" =>
           /\ Len(log) <= 1
           /\ \A k \in 1..Len(log) :
                  log[k].cmd = WriteCommand(call.args[1], call.args[2])
           /\ Ended => Len(log) = 1
           /\ Returned => log[1].status = Success
    /\ call.op = "eeprom_getitem" =>
           /\ Len(log) <= 1
           /\ \A k \in 1..Len(log) : log[k].cmd = ReadCommand(call.args[1])
           /\ Ended => Len(log) = 1
           /\ Returned => (log[1].status = Success /\ ret = log[1].field)
           /\ (Returned /\ PrevReturned("eeprom_setitem")
                   /\ prev.args[1] = call.args[1]) => ret = prev.args[2]

\* C7 witness: eeprom[254] = 255 returned and eeprom[254] read after it
\* returned 255 after one ReadEEPROM command.
C7_Witness ==
    /\ prev = [op |-> "eeprom_setitem", args |-> <<254, 255>>,
               outcome |-> "returned"]
    /\ call = [op |-> "eeprom_getitem", args |-> <<254>>]
    /\ Returned
    /\ ret = 255
    /\ Len(log) = 1

\* The slice assignment before this call, when it returned and its range
\* [s, e) lies within [0, 255).
PrevRangeWritten ==
    /\ PrevReturned("eeprom_setslice")
    /\ 0 <= prev.args[1]
    /\ prev.args[2] <= EepromSize

\* C8: for every range [s, e) within [0,255) and every value sequence of
\* length e-s, when the device answers Success, writeRange(s, values)
\* followed by readRange(s, e) returns values, and read(s+k) returns
\* values[k] for every k of the range; writeRange(10, [2,4,8,16]) then
\* readRange(10, 14) is [2,4,8,16] and read(12) is 8.
C8_RangeRoundTrip ==
    /\ (PrevRangeWritten /\ call.op = "eeprom_getslice" /\ Returned
            /\ call.args = <<prev.args[1], prev.args[2]>>) =>
           ret = prev.args[3]
    /\ (PrevRangeWritten /\ call.op = "eeprom_getitem" /\ Returned
            /\ prev.args[1] <= call.args[1] /\ call.args[1] < prev.args[2]) =>
           ret = prev.args[3][call.args[1] - prev.args[1] + 1]
    /\ (PrevRangeWritten /\ prev.args = <<10, 14, <<2, 4, 8, 16>>>> /\ Returned) =>
           /\ (call.op = "eeprom_getslice" /\ call.args = <<10, 14>>) =>
                  ret = <<2, 4, 8, 16>>
           /\ (call.op = "eeprom_getitem" /\ call.args = <<12>>) => ret = 8

\* C8 witness: eeprom[10:14] = [2, 4, 8, 16] returned and eeprom[10:14] read
\* after it returned the four values.
C8_Witness ==
    /\ PrevRangeWritten
    /\ prev.args = <<10, 14, <<2, 4, 8, 16>>>>
    /\ call = [op |-> "eeprom_getslice", args |-> <<10, 14>>]
    /\ Returned
    /\ ret = <<2, 4, 8, 16>>

\* A range call, the commands it is to issue for the ascending addresses of
\* the set `span`, and whether its log is the start of them, the whole of
\* them once it returned.
IsRangeCall == call.op \in {"eeprom_getslice", "eeprom_setslice"}
RangeCommand(span, k) ==
    LET lo == CHOOSE a \in span : \A b \in span : a <= b IN
    IF call.op = "eeprom_getslice"
    THEN ReadCommand(lo + k - 1)
    ELSE WriteCommand(lo + k - 1, call.args[3][k])
IssuesOver(span) ==
    /\ Len(log) <= Cardinality(span)
    /\ \A k \in 1..Len(log) : log[k].cmd = RangeCommand(span, k)
    /\ Returned => Len(log) = Cardinality(span)
    /\ (Returned /\ call.op = "eeprom_getslice") =>
           /\ Len(ret) = Cardinality(span)
           /\ \A k \in 1..Len(ret) : ret[k] \in 0..255 /\ ret[k] = log[k].field

\* C9 (as stated): readRange(s, e) and writeRange over [s, e) issue exactly
\* one single-byte command per address of [s, e) clamped to [0,255), in
\* ascending order, and readRange returns one value per such address.
C9_ClampedRange ==
    IsRangeCall =>
        IssuesOver({a \in 0..(EepromSize - 1) : call.args[1] <= a /\ a < call.args[2]})

\* A bound of the range as the commands follow it: a negative bound counts
\* back from 255.
FromEnd(k) == IF k < 0 THEN k + EepromSize ELSE k

\* C9 (amended): readRange(s, e) and writeRange over [s, e) issue exactly one
\* single-byte command per address a of [0,255) with s' <= a < e', in
\* ascending order, where s' and e' are s and e with 255 added to a negative
\* one; no command is for an address outside [0,255); readRange returns one
\* value per such address, each in 0..255, and readRange(0, 4) four values.
C9_SliceRange ==
    /\ IsRangeCall =>
           IssuesOver({a \in 0..(EepromSize - 1) :
                           FromEnd(call.args[1]) <= a /\ a < FromEnd(call.args[2])})
    /\ \A k \in 1..Len(log) :
           log[k].cmd.code \in {"ReadEEPROM", "WriteEEPROM"} =>
               log[k].cmd.arg[1] \in 0..(EepromSize - 1)
    /\ (call = [op |-> "eeprom_getslice", args |-> <<0, 4>>] /\ Returned) =>
           Len(ret) = 4

\* C9 witness: eeprom[253:257] returned the two values of addresses 253 and
\* 254 after two ReadEEPROM commands.
C9_Witness ==
    /\ call = [op |-> "eeprom_getslice", args |-> <<253, 257>>]
    /\ Returned
    /\ Len(ret) = 2
    /\ log[1].cmd = ReadCommand(253)
    /\ log[2].cmd = ReadCommand(254)

\* A logged command other than SPITransfer that was answered with a
\* non-zero status.
Refused(e) ==
    /\ e.cmd.code # "SPITransfer"
    /\ e.status \notin {Success, Pending, Malformed}

\* C10: for every command other than SPITransfer, a response with any
\* non-zero status, 0xF8 included, ends the operation with a
\* CommandException carrying that status: the refused command was written
\* once, it is the last command of the operation, and nothing is written or
\* read after it.
C10_FatalStatus ==
    \A k \in 1..Len(log) :
        Refused(log[k]) =>
            /\ k = Len(log)
            /\ outcome = "CommandException"
            /\ ret = <<log[k].status>>
            /\ pc \in {"idle", "dead"}
            /\ io = "none"
            /\ req = NoReq

\* C10 witness: a single-byte EEPROM write was answered 0xF8 and the call
\* ended with CommandException(0xF8) after that one command.
C10_Witness ==
    /\ call.op = "eeprom_setitem"
    /\ Len(log) = 1
    /\ log[1].cmd.code = "WriteEEPROM"
    /\ log[1].status = Busy
    /\ outcome = "CommandException"
    /\ ret = <<Busy>>
    /\ pc = "idle"

\* A logged SPITransfer request answered with a status other than 0x00 and
\* 0xF8.
SpiRefused(e) ==
    /\ IsSpi(e)
    /\ e.status \notin {Success, Busy, Pending, Malformed}

\* C11, the calls as they stand: an SPITransfer request answered with a
\* status other than 0x00 and 0xF8 is the last request of its call, and the
\* call either still holds the response it has just been handed or has ended
\* with a CommandException carrying that status, without a buffer returned.
C11_Calls ==
    \A k \in 1..Len(log) :
        SpiRefused(log[k]) =>
            /\ k = Len(log)
            /\ call.op = "transfer"
            /\ \/ outcome = "running" /\ io = "done" /\ resp.status = log[k].status
               \/ /\ outcome = "CommandException"
                  /\ ret = <<log[k].status>>
                  /\ pc = "idle"
                  /\ io = "none"

\* C11, the steps: the step transfer takes on such a response raises the
\* CommandException and writes nothing.
C11_Steps ==
    (log # <<>> /\ SpiRefused(log[Len(log)]) /\ outcome = "running") =>
        /\ outcome' = "CommandException"
        /\ ret' = <<log[Len(log)].status>>
        /\ log' = log

\* C11: in transfer, the first SPITransfer response (to a chunk or to a drain
\* request) whose status is neither 0x00 nor 0xF8 makes transfer fail with a
\* CommandException carrying that status; no further SPITransfer command is
\* issued by that call and no receive buffer is returned.
C11_TransferFatal == []C11_Calls /\ [][C11_Steps]_vars

\* C11 witness: the first chunk of a 130-byte buffer was answered Success,
\* the second 0xF7, and transfer ended with CommandException(0xF7) with the
\* third chunk never sent.
C11_Witness ==
    /\ call.op = "transfer"
    /\ Len(Tx) = 2 * ChunkSize + 10
    /\ Len(SpiLog) = 2
    /\ SpiLog[1].status = Success
    /\ SpiLog[2].cmd.arg = ExpectedChunk(Tx, 2)
    /\ SpiLog[2].status = 247
    /\ outcome = "CommandException"
    /\ ret = <<247>>

\* Requests of the log whose response has not been read.
Unanswered(l) == {k \in 1..Len(l) : l[k].status = Pending}

\* C12, the session as it stands: only the request written last can be
\* without its response, and sendCommand waits in its read exactly then.
C12_State ==
    /\ Unanswered(log) \subseteq {Len(log)}
    /\ io = "read" <=> Unanswered(log) # {}

\* C12, the steps: a frame is written only when every request before it has
\* had its response read, the write is followed by the read of that request
\* and by nothing else, a read answers the one request that waits, and a new
\* public call starts only when no request waits.
C12_Steps ==
    /\ Len(log') > Len(log) =>
           /\ Len(log') = Len(log) + 1
           /\ Unanswered(log) = {}
           /\ SubSeq(log', 1, Len(log)) = log
           /\ log'[Len(log')].status = Pending
           /\ io = "write" /\ io' = "read"
    /\ Unanswered(log) # {} =>
           /\ Unanswered(log') = {}
           /\ Len(log') = Len(log)
           /\ SubSeq(log', 1, Len(log) - 1) = SubSeq(log, 1, Len(log) - 1)
           /\ log'[Len(log)].cmd = log[Len(log)].cmd
           /\ ncalls' = ncalls
    /\ (Unanswered(log) = {} /\ Len(log') <= Len(log) /\ log' # log) =>
           (log' = <<>> /\ ncalls' = ncalls + 1)

\* C12: over any sequence of public operations on one session, transport
\* writes and reads strictly alternate starting with a write: no command
\* frame is written before the response to the previous command has been
\* read, and exactly one report is read per report written.
C12_Alternation == []C12_State /\ [][C12_Steps]_vars

\* C12 witness: a range read has had two requests written and answered and
\* is about to write its third.
C12_Witness ==
    /\ call.op = "eeprom_getslice"
    /\ Len(log) = 2
    /\ Unanswered(log) = {}
    /\ io = "write"

\* C13, the session as it stands: __init__ writes nothing but one
\* CancelTransfer command and returns the session only after that command
\* was answered Success; the first public call finds exactly that behind it;
\* without a session nothing more is written.
C13_State ==
    /\ pc = "new" => (log = <<>> /\ ncalls = 0)
    /\ call.op = "__init__" =>
           /\ ncalls = 0
           /\ Len(log) <= 1
           /\ \A k \in 1..Len(log) : log[k].cmd = Command("CancelTransfer", <<>>)
           /\ Ended => Len(log) = 1
           /\ Returned => log[1].status = Success
           /\ pc = "dead" <=> (Ended /\ ~Returned)
    /\ ncalls = 0 => call.op \in {"none", "__init__"}
    /\ ncalls = 1 =>
           prev = [op |-> "__init__", args |-> <<>>, outcome |-> "returned"]
    /\ pc = "dead" => call.op = "__init__"

\* C13, the steps: the first frame written on a session is the CancelTransfer
\* of __init__; every other command is written during a public call, and a
\* public call starts only on a session __init__ has returned; a failed
\* __init__ is followed by nothing.
C13_Steps ==
    /\ pc # "dead"
    /\ Len(log') > Len(log) =>
           IF ncalls = 0
           THEN /\ log = <<>>
                /\ call.op = "__init__"
                /\ log'[1].cmd = Command("CancelTransfer", <<>>)
           ELSE call.op # "__init__"
    /\ ncalls' # ncalls =>
           /\ pc = "idle"
           /\ ncalls = 0 =>
                  /\ call.op = "__init__"
                  /\ Returned
                  /\ Len(log) = 1
                  /\ log[1].cmd = Command("CancelTransfer", <<>>)
                  /\ log[1].status = Success

\* C13: opening a session sends CancelTransfer exactly once during
\* initialization, and it is the first command of the session: no GPIO,
\* EEPROM, settings or SPITransfer command is ever sent on a session before
\* that CancelTransfer has been sent and answered.
C13_CancelFirst == []C13_State /\ [][C13_Steps]_vars

\* C13 witness: the first public call of a session, a GPIO bit read, has
\* written its Get command after __init__ returned.
C13_Witness ==
    /\ ncalls = 1
    /\ prev = [op |-> "__init__", args |-> <<>>, outcome |-> "returned"]
    /\ call.op = "getitem"
    /\ Len(log) = 1
    /\ log[1].cmd.code \in GpioGetCodes

\* The transfer-settings writes of the running call, and what holds of them
\* in any case: there is at most one, it declares len(tx) as the transfer
\* size, every SPITransfer command comes after it was answered Success, and
\* one that is refused is the last command of the call.
IsSettingsPush(e) == e.cmd.code = "SetSPISettings"
SettingsPushes == SelectSeq(log, IsSettingsPush)
PushBeforeSpi ==
    /\ Len(SettingsPushes) <= 1
    /\ \A k \in 1..Len(log) :
           /\ IsSettingsPush(log[k]) =>
                  /\ log[k].cmd.arg[1].spi_tx_size = Len(Tx)
                  /\ log[k].status \notin {Success, Pending} => k = Len(log)
           /\ IsSpi(log[k]) =>
                  \E h \in 1..(k - 1) :
                      IsSettingsPush(log[h]) /\ log[h].status = Success
    /\ (Returned /\ Tx = <<>>) =>
           (SettingsPushes # <<>> /\ SelectSeq(log, IsSpi) = <<>>)

\* C14 (as stated): every call transfer(tx) issues a transfer-settings write
\* declaring len(tx), answered Success before the first SPITransfer command;
\* if the write fails no SPITransfer command is issued.
C14_AlwaysPushes ==
    call.op = "transfer" =>
        /\ PushBeforeSpi
        /\ Ended => Len(SettingsPushes) = 1

\* The fetch of the transfer settings that transfer makes when none are
\* cached was refused or came back malformed.
FetchFailed ==
    /\ Len(log) = 1
    /\ log[1].cmd.code = "GetSPISettings"
    /\ log[1].status # Success

\* C14 (amended): every call transfer(tx), an empty tx included, whose fetch
\* of the settings did not fail issues one transfer-settings write declaring
\* len(tx), answered Success before the first SPITransfer command; if the
\* write fails no SPITransfer command is issued; if the fetch fails, neither
\* the write nor any SPITransfer command is issued.
C14_PushUnlessFetchFails ==
    call.op = "transfer" =>
        /\ PushBeforeSpi
        /\ Ended => (Len(SettingsPushes) = 1 <=> ~FetchFailed)

\* C14 witness: transfer of an empty buffer returned after the settings
\* write declaring size 0 was answered Success, without any SPITransfer.
C14_Witness ==
    /\ TransferReturned
    /\ Tx = <<>>
    /\ log[Len(log)].cmd.code = "SetSPISettings"
    /\ log[Len(log)].cmd.arg[1].spi_tx_size = 0
    /\ log[Len(log)].status = Success

\* C15: if the k-th single-byte write of writeRange is answered with a
\* non-Success status, the range operation fails at once with the
\* CommandException of that status: the refused write is the last command of
\* the call, the k-1 commands before it are the writes of the first k-1
\* values to ascending addresses, each answered Success, and the device
\* still holds those k-1 values.
C15_NoRollback ==
    call.op = "eeprom_setslice" =>
        \A k \in 1..Len(log) :
            log[k].status \notin {Success, Pending, Malformed} =>
                /\ k = Len(log)
                /\ outcome = "CommandException"
                /\ ret = <<log[k].status>>
                /\ pc = "idle"
                /\ io = "none"
                /\ log[k].cmd.code = "WriteEEPROM"
                /\ \A h \in 1..(k - 1) :
                       /\ log[h].cmd = WriteCommand(log[k].cmd.arg[1] - (k - h),
                                                    call.args[3][h])
                       /\ log[h].status = Success
                       /\ devEeprom[log[h].cmd.arg[1]] = call.args[3][h]

\* C15 witness: eeprom[10:14] = [2, 4, 8, 16] had its third write refused
\* with 0xF7; the call failed with that status after three commands and the
\* device holds 2 and 4 at addresses 10 and 11.
C15_Witness ==
    /\ call = [op |-> "eeprom_setslice", args |-> <<10, 14, <<2, 4, 8, 16>>>>]
    /\ Len(log) = 3
    /\ log[3].status = 247
    /\ outcome = "CommandException"
    /\ ret = <<247>>
    /\ devEeprom[10] = 2
    /\ devEeprom[11] = 4

\* C16, the calls as they stand: a request whose response frame came back
\* shorter than the response it declares is the last request of its call,
\* and the call has ended with the ValueError of the rejected frame, with
\* nothing returned.
C16_Calls ==
    \A k \in 1..Len(log) :
        log[k].status = Malformed =>
            /\ k = Len(log)
            /\ outcome = "ValueError"
            /\ ret = <<>>
            /\ pc \in {"idle", "dead"}
            /\ io = "none"

\* C16, the steps: the read of a short frame hands no response to the caller
\* and leaves every cached value as it was.
C16_Steps ==
    (log' # <<>> /\ log'[Len(log')].status = Malformed) =>
        /\ resp' = resp
        /\ outcome' = "ValueError"
        /\ UNCHANGED session

\* C16: for every command, a response frame read from the transport that is
\* shorter than the response length declared for the command's opcode, an
\* empty read included, is rejected as an error: sendCommand returns no
\* response object and none of the frame's fields reach the caller.
C16_ShortFrame == []C16_Calls /\ [][C16_Steps]_vars

\* C16 witness: the fetch of a remote property was answered with a short
\* frame; the get ended with a ValueError and nothing was cached.
C16_Witness ==
    /\ call.op = "get"
    /\ Len(log) = 1
    /\ log[1].cmd = FetchCommand(PropOfCall)
    /\ log[1].status = Malformed
    /\ outcome = "ValueError"
    /\ ~IsCached(cache[PropOfCall])

\* The data fields of the Success responses of l, in the order of the
\* requests.
RECURSIVE SuccessData(_)
SuccessData(l) ==
    IF l = <<>> THEN <<>>
    ELSE SuccessData(SubSeq(l, 1, Len(l) - 1))
         \o (IF l[Len(l)].status = Success THEN l[Len(l)].field ELSE <<>>)

IsSuccess(e) == e.status = Success
IsDrain(e) == IsSpi(e) /\ e.cmd.arg = <<>>

\* C17: the buffer returned by transfer is the concatenation, in request
\* order, of the data fields of exactly the Success responses to its
\* SPITransfer requests, one per chunk and one per drain round; the data
\* field of a Busy response is never appended, and no Success response's
\* data is appended twice or dropped.
C17_Concatenation ==
    TransferReturned =>
        /\ ret = SuccessData(SpiLog)
        /\ Len(SelectSeq(SpiLog, IsChunkDone)) = NumChunks(Len(Tx))
        /\ \A k \in 1..Len(SpiLog) :
               SpiLog[k].status \in {Success, Busy}

\* C17 witness: a 61-byte transfer returned after a Busy answer, whose stale
\* byte is not in the buffer, and after a drain round, whose data is.
C17_Witness ==
    /\ TransferReturned
    /\ Len(Tx) = ChunkSize + 1
    /\ \E k \in 1..Len(SpiLog) : SpiLog[k].status = Busy /\ SpiLog[k].field # <<>>
    /\ \E k \in 1..Len(SpiLog) :
           IsDrain(SpiLog[k]) /\ IsSuccess(SpiLog[k]) /\ SpiLog[k].field # <<>>
    /\ \A j \in 1..Len(ret) : ret[j] # 255

\* A transfer call inside one of its two loops, holding the response to its
\* last SPITransfer request.
InTransferLoop ==
    /\ call.op = "transfer"
    /\ io = "done"
    /\ pc \in {"transfer_chunk", "transfer_drain"}

\* C18, the steps: whatever went before, a Busy response makes transfer send
\* the same request again, and a Success response to a drain request that
\* leaves the received data shorter than len(tx) makes it send another drain
\* request; neither ends the call.
C18_Steps ==
    /\ (InTransferLoop /\ resp.status = Busy) =>
           /\ io' = "write"
           /\ req' = req
           /\ frame' = frame
           /\ outcome' = "running"
    /\ (InTransferLoop /\ pc = "transfer_drain" /\ resp.status = Success
            /\ Len(frame.response) + Len(resp.field) < Len(Tx)) =>
           /\ io' = "write"
           /\ req'.cmd = DrainCommand
           /\ outcome' = "running"

\* C18, the calls as they stand: a transfer that failed in its loops has had
\* a response other than Success and Busy, or a short frame; one that
\* returned has received at least len(tx) bytes.
C18_State ==
    call.op = "transfer" =>
        /\ (Ended /\ ~Returned /\ IsSpi(log[Len(log)])) =>
               log[Len(log)].status \notin {Success, Busy}
        /\ Returned => Len(ret) >= Len(Tx)

TransferRunning == call.op = "transfer" /\ outcome = "running"

\* C18: transfer has no retry or iteration bound.  It ends when the device
\* answers Busy only finitely often and goes on delivering data until
\* len(tx) bytes have come; while the device answers Busy, or answers drain
\* requests with Success and no data, it keeps issuing SPITransfer requests
\* and neither returns nor fails.
C18_NoBound ==
    /\ [][C18_Steps]_vars
    /\ []C18_State
    /\ SF_position(Delivers) => (TransferRunning ~> Ended)

\* C18 witness: a chunk has been answered Busy as often as the log reaches
\* back, and transfer is about to write the same request once more.
C18_Witness ==
    /\ TransferRunning
    /\ Len(log) = MaxBusy
    /\ \A k \in 1..Len(log) : log[k].status = Busy /\ log[k].cmd = req.cmd
    /\ io = "write"
    /\ req.cmd.arg # <<>>

\* The commands that push a value, and what the session holds, in the caches
\* c and g, of the value such a command pushes.
IsPush(c) == c.code \in SetCodes \cup GpioSetCodes
HeldIn(c, g, cmd) ==
    IF cmd.code \in GpioSetCodes
    THEN g[GpioOfCode(cmd.code)]
    ELSE c[PropOfCode(cmd.code)]
PrevFailed(op) == prev.op = op /\ prev.outcome \notin {"none", "returned"}

\* C19, the calls as they stand: while a push command waits to be written or
\* answered the cache already holds the value it carries; a get right after
\* a set(v) of the same property that failed returns v and writes no
\* command, and so does the read of a bit right after an assignment of the
\* whole word that failed; after a failed assignment of bit i, a read of
\* bit i that returned without writing a command returns the bit assigned.
C19_Calls ==
    /\ (io \in {"write", "read"} /\ IsPush(req.cmd)) =>
           HeldIn(cache, gpioCache, req.cmd) = Cached(req.cmd.arg[1])
    /\ (call.op = "get" /\ PrevFailed("set") /\ prev.args[1] = call.args[1]) =>
           (Returned /\ ret = prev.args[2] /\ log = <<>>)
    /\ (call.op = "getitem" /\ PrevFailed("setraw")
            /\ prev.args[1] = call.args[1]) =>
           (Returned /\ ret = Bit(prev.args[2], call.args[2]) /\ log = <<>>)
    /\ (call.op = "getitem" /\ PrevFailed("setitem") /\ Returned /\ log = <<>>
            /\ prev.args[1] = call.args[1] /\ prev.args[2] = call.args[2]) =>
           ret = BitOf(prev.args[3])

\* C19, the steps: the answer that makes a push fail leaves the cache
\* holding the value pushed.
C19_Steps ==
    (io = "read" /\ IsPush(req.cmd) /\ outcome' # "running") =>
        HeldIn(cache', gpioCache', req.cmd) = Cached(req.cmd.arg[1])

\* C19: set(v) on a cached remote property or on a GPIO word stores v
\* before the push command is sent; when the push is answered with a
\* non-zero status and the set fails, the cache still holds v, and the next
\* get returns v without a fetch.
C19_StoreBeforePush == []C19_Calls /\ [][C19_Steps]_vars

\* C19 witness: set(v) of a property failed on a non-zero status, the device
\* keeps another value, and the get that followed returned v with no
\* command written.
C19_Witness ==
    /\ call.op = "get"
    /\ prev.op = "set"
    /\ prev.outcome = "CommandException"
    /\ prev.args[1] = call.args[1]
    /\ Returned
    /\ log = <<>>
    /\ ret = prev.args[2]
    /\ devProp[call.args[1]] # ret

\* The fetches of the transfer settings the running call has written, and
\* the settings the session holds.
IsSettingsFetch(e) == e.cmd.code = "GetSPISettings"
SettingsFetches == SelectSeq(log, IsSettingsFetch)
CachedSettings == cache["transfer_settings"]
UsesSettings(op) == op \in {"transfer", "get", "set"}

\* C20 (as stated): GetSPISettings is issued at most once in the lifetime of
\* a session, by the first transfer or the first get; every transfer call
\* issues exactly one SetSPISettings; after transfer(tx) the cached transfer
\* settings have transfer size len(tx).
C20_FetchOnce ==
    /\ Len(SettingsFetches) <= 1
    /\ prev.op \in {"transfer", "get"} => SettingsFetches = <<>>
    /\ (call.op = "transfer" /\ Ended) =>
           /\ Len(SettingsPushes) = 1
           /\ IsCached(CachedSettings)
           /\ ValueOf(CachedSettings).spi_tx_size = Len(Tx)

\* C20 (amended), the calls as they stand: a call writes GetSPISettings at
\* most once, as its first command and only while no settings are cached;
\* it writes none when the call before it used the settings and returned,
\* or was a set; a transfer that ended wrote exactly one SetSPISettings and
\* left settings of size len(tx) cached unless its fetch failed, and then
\* it wrote none and left no settings cached.
C20_Calls ==
    /\ Len(SettingsFetches) <= 1
    /\ SettingsFetches # <<>> => IsSettingsFetch(log[1])
    /\ (io \in {"write", "read"} /\ req.cmd.code = "GetSPISettings") =>
           ~IsCached(CachedSettings)
    /\ ((UsesSettings(prev.op) /\ prev.outcome = "returned") \/ prev.op = "set")
           => SettingsFetches = <<>>
    /\ (call.op = "transfer" /\ Ended) =>
           IF FetchFailed
           THEN SettingsPushes = <<>> /\ ~IsCached(CachedSettings)
           ELSE /\ Len(SettingsPushes) = 1
                /\ IsCached(CachedSettings)
                /\ ValueOf(CachedSettings).spi_tx_size = Len(Tx)

\* C20 (amended), the steps: settings once cached stay cached, and the call
\* whose fetch was answered caches them in its next step.
C20_Steps ==
    /\ IsCached(CachedSettings) => IsCached(CachedSettings')
    /\ (io = "done" /\ req.cmd.code = "GetSPISettings") =>
           IsCached(CachedSettings')

\* C20 (amended): over any sequence of transfer, get and set calls on one
\* session, GetSPISettings is answered Success at most once, by the first
\* transfer or get that has its fetch answered so, and is issued by no call
\* after that; every transfer whose fetch did not fail issues exactly one
\* SetSPISettings and leaves the cached settings with size len(tx); a
\* transfer whose fetch fails issues no SetSPISettings and caches nothing,
\* so that the next transfer or get fetches again.
C20_FetchUntilCached == []C20_Calls /\ [][C20_Steps]_vars

\* C20 witness: a transfer returned, and the transfer after it returned
\* without a fetch, with one settings push and the cached size len(tx),
\* which is not the size the device started with.
C20_Witness ==
    /\ call.op = "transfer"
    /\ Returned
    /\ PrevReturned("transfer")
    /\ SettingsFetches = <<>>
    /\ Len(SettingsPushes) = 1
    /\ ValueOf(CachedSettings).spi_tx_size = Len(Tx)
    /\ Len(Tx) = 1

====
